---------------------------- MODULE Spec2Model ----------------------------
(***************************************************************************)
(* Histogram storage and parallel histogram reduction of                   *)
(* src/common/hist_util.h: HistCollection and ParallelGHistBuilder.        *)
(*                                                                         *)
(* A histogram is an array of gradient-pair sums, one per bin.  A pair is  *)
(* summed componentwise, so one integer per bin stands for the pair.       *)
(* C++ indices start at 0, TLA+ sequences at 1: element i of a vector v is *)
(* v[i + 1].                                                               *)
(***************************************************************************)
EXTENDS Integers, Sequences, FiniteSets, TLC

\* ------------------------------------------------------------------ bounds

\* Node ids handed to a HistCollection are 0..MaxNid.
MaxNid == 1
\* Bin counts handed to Init are 1..MaxBins; the builder uses MaxBins bins.
MaxBins == 2
\* Values a caller writes into the bins of a histogram are 1..MaxVal.
MaxVal == 1
\* Reset is called with 1..MaxThreads threads,
MaxThreads == 3
\* with 1..MaxNodes nodes,
MaxNodes == 3
\* and with a work space of 0..MaxSpace work units.
MaxSpace == 3

\* A feature has 0..MaxCuts cut points,
MaxCuts == 2
\* with values (and the values searched for) in 0..MaxCutVal, counted in
\* halves: 3 stands for the float 1.5.
MaxCutVal == 3

\* The work spaces of the scheduling passes have at most MaxWideSpace units.
MaxWideSpace == 5

\* The data buffer of an Index is resized to 0..MaxBytes bytes,
MaxBytes == 4
\* its offset table to 1..MaxOffsets entries,
MaxOffsets == 2
\* and the offset of entry j is j * step for a step in 0..MaxStep.
MaxStep == 1
\* BinarySearchBin searches data of at most MaxData global bin ids,
MaxData == 3
\* drawn from the ids 0..MaxId
MaxId == 2
\* and the ids 2^31..2^31 + MaxTopId.
MaxTopId == 1

\* std::numeric_limits<uint32_t>::max(), the "not added" mark of row_ptr_.
\* The code's value is 2^32 - 1; the model checker's integers end at 2^31 - 1,
\* which like the code's value is above every row index a run can produce.
kMax == 2147483647

\* ---------------------------------------------------------------- helpers

\* std::vector::resize(n, fill): keep the first n elements, pad with fill.
Resize(s, n, fill) == [i \in 1..n |-> IF i <= Len(s) THEN s[i] ELSE fill]

Zeros(n) == [i \in 1..n |-> 0]

\* -------------------------------------------------- HistCollection (pure)
\* A collection is a record of the class's fields:
\*   nbins, n_nodes_added, contiguous_allocation, data, row_ptr.

\* The object after construction (the member initialisers).
HC_New == [nbins |-> 0, n_nodes_added |-> 0, contiguous_allocation |-> FALSE, data |-> <<>>, row_ptr |-> <<>>]

RowExists_NoMark(hc, nid) == nid < Len(hc.row_ptr)

\* bool RowExists(bst_uint nid) const
RowExists(hc, nid) == nid < Len(hc.row_ptr) /\ hc.row_ptr[nid + 1] # kMax

Init_KeepRows(hc, nbins) ==
  [hc EXCEPT !.nbins = nbins,
             !.data = IF hc.nbins # nbins THEN <<>> ELSE @,
             !.n_nodes_added = 0]

\* void Init(uint32_t nbins)
HC_Init(hc, nbins) ==
  [hc EXCEPT !.nbins = nbins,
             !.data = IF hc.nbins # nbins THEN <<>> ELSE @,
             !.row_ptr = <<>>,
             !.n_nodes_added = 0]

AddHistRowFails_Never(hc, nid) == FALSE

\* AddHistRow: CHECK_EQ(row_ptr_[nid], kMax) fails.  When nid is beyond the
\* table the table is first padded with kMax, so the check passes.
AddHistRowFails(hc, nid) == nid < Len(hc.row_ptr) /\ hc.row_ptr[nid + 1] # kMax

\* void AddHistRow(bst_uint nid), when the check passes
HC_AddHistRow(hc, nid) ==
  LET rp == IF nid >= Len(hc.row_ptr) THEN Resize(hc.row_ptr, nid + 1, kMax) ELSE hc.row_ptr
      dt == IF Len(hc.data) < nid + 1 THEN Resize(hc.data, nid + 1, <<>>) ELSE hc.data
  IN  [hc EXCEPT !.row_ptr = [rp EXCEPT ![nid + 1] = hc.n_nodes_added],
                 !.data = dt,
                 !.n_nodes_added = @ + 1]

AllocateData_Always(hc, nid) ==
  LET id == hc.row_ptr[nid + 1]
  IN  [hc EXCEPT !.data[id + 1] = Zeros(hc.nbins)]

\* void AllocateData(bst_uint nid)
HC_AllocateData(hc, nid) ==
  LET id == hc.row_ptr[nid + 1]
  IN  IF Len(hc.data[id + 1]) = 0
      THEN [hc EXCEPT !.data[id + 1] = Resize(hc.data[id + 1], hc.nbins, 0)]
      ELSE hc

\* void AllocateAllData()
HC_AllocateAllData(hc) ==
  LET new_size == hc.nbins * Len(hc.data)
  IN  [hc EXCEPT !.contiguous_allocation = TRUE,
                 !.data[1] = IF Len(@) # new_size THEN Resize(@, new_size, 0) ELSE @]

HC_View_NoStride(hc, nid) ==
  LET id == hc.row_ptr[nid + 1]
  IN  IF hc.contiguous_allocation
      THEN [arr |-> 0, off |-> id, size |-> hc.nbins]
      ELSE [arr |-> id, off |-> 0, size |-> hc.nbins]

\* GHistRowT operator[](bst_uint nid) const, when it does not fail: the view
\* {ptr, nbins_} as the vector of data_ it points into (arr), the offset of
\* its first element in that vector (off) and its length (size).
HC_View(hc, nid) ==
  LET id == hc.row_ptr[nid + 1]
  IN  IF hc.contiguous_allocation
      THEN [arr |-> 0, off |-> hc.nbins * id, size |-> hc.nbins]
      ELSE [arr |-> id, off |-> 0, size |-> hc.nbins]

\* operator[] fails: row_ptr_.at(nid) throws, or CHECK_NE(id, kMax) fails.
IndexFails(hc, nid) == nid >= Len(hc.row_ptr) \/ hc.row_ptr[nid + 1] = kMax

\* The check of operator[] that fails: at() throws std::out_of_range, CHECK_NE
\* raises dmlc::Error.
IndexError(hc, nid) == IF nid >= Len(hc.row_ptr) THEN "out_of_range" ELSE "CHECK_NE"

\* The elements of a view lie inside the vector it points into.
ViewInStorage(hc, v) == v.arr < Len(hc.data) /\ v.off + v.size <= Len(hc.data[v.arr + 1])

\* The nbins_ entries read through the view operator[](nid) returns.
HC_Read(hc, nid) ==
  LET w == HC_View(hc, nid)
  IN  [i \in 1..w.size |-> hc.data[w.arr + 1][w.off + i]]

\* The collection after v was written to every entry of the view
\* operator[](nid) returns.
HC_Fill(hc, nid, v) ==
  LET w == HC_View(hc, nid)
  IN  [hc EXCEPT !.data[w.arr + 1] =
         [i \in 1..Len(@) |-> IF i > w.off /\ i <= w.off + w.size THEN v ELSE @[i]]]

RECURSIVE AllocateEach(_, _)
\* AllocateData(nid) for every existing node nid, from the highest id that
\* can exist down to 0.
AllocateEach(hc, n) ==
  IF n = 0 THEN hc
  ELSE AllocateEach(IF RowExists(hc, n - 1) THEN HC_AllocateData(hc, n - 1) ELSE hc, n - 1)

\* ---------------------------------------------- ParallelGHistBuilder (pure)

\* void InitilizeHistByZeroes(GHistRow hist, size_t begin, size_t end)
InitilizeHistByZeroes(hist, begin, end) ==
  [i \in 1..Len(hist) |-> IF i > begin /\ i <= end THEN 0 ELSE hist[i]]

\* void IncrementHist(GHistRow dst, const GHistRow add, size_t begin, size_t end)
IncrementHist(dst, add, begin, end) ==
  [i \in 1..Len(dst) |-> IF i > begin /\ i <= end THEN dst[i] + add[i] ELSE dst[i]]

\* MatchThreadsToNodes: chunck_size = space_size / nthreads + !!(space_size % nthreads)
ChunkSize(size, nthreads) == (size \div nthreads) + (IF size % nthreads # 0 THEN 1 ELSE 0)

\* The first and one-past-last work unit of thread tid's chunk.
ChunkBegin(size, nthreads, tid) == ChunkSize(size, nthreads) * tid

Min(a, b) == IF a < b THEN a ELSE b

ChunkEnd(size, nthreads, tid) ==
  Min(ChunkBegin(size, nthreads, tid) + ChunkSize(size, nthreads), size)

\* The bool at threads_to_nids_map_[tid * nodes + nid].
Touches(map, nodes, tid, nid) == map[tid * nodes + nid + 1]

\* void MatchThreadsToNodes(const BlockedSpace2d& space): the new
\* threads_to_nids_map_.  space[i + 1] is space.GetFirstDimension(i).
MatchThreadsToNodes(sp, nthreads, nodes) ==
  [k \in 1..(nthreads * nodes) |->
     LET tid == (k - 1) \div nodes
         nid == (k - 1) % nodes
         begin == ChunkBegin(Len(sp), nthreads, tid)
         end == ChunkEnd(Len(sp), nthreads, tid)
     IN  /\ begin < Len(sp)
         /\ sp[begin + 1] <= nid
         /\ nid <= sp[end]]

\* nthreads_for_nid of AllocateAdditionalHistograms
ThreadsForNid(map, nthreads, nodes, nid) ==
  Cardinality({tid \in 0..(nthreads - 1) : Touches(map, nodes, tid, nid)})

RECURSIVE SumOver(_, _, _)
\* Sum of f[i] for i in lo..hi.
SumOver(f, lo, hi) == IF lo > hi THEN 0 ELSE f[lo] + SumOver(f, lo + 1, hi)

HistAllocatedAdditionally_PerThread(map, nthreads, nodes) ==
  SumOver([nid \in 0..(nodes - 1) |-> ThreadsForNid(map, nthreads, nodes, nid)], 0, nodes - 1)

\* hist_allocated_additionally of AllocateAdditionalHistograms
HistAllocatedAdditionally(map, nthreads, nodes) ==
  SumOver([nid \in 0..(nodes - 1) |->
             IF ThreadsForNid(map, nthreads, nodes, nid) - 1 > 0
             THEN ThreadsForNid(map, nthreads, nodes, nid) - 1 ELSE 0],
          0, nodes - 1)

RECURSIVE AddHistRows(_, _, _)
\* for (i = from; i < to; ++i) hist_buffer_.AddHistRow(i);
AddHistRows(hb, from, to) ==
  IF from >= to THEN hb ELSE AddHistRows(HC_AddHistRow(hb, from), from + 1, to)

\* void AllocateAdditionalHistograms(): the new hist_buffer_
AllocateAdditionalHistograms(hb, map, nthreads, nodes) ==
  AddHistRows(hb, 0, HistAllocatedAdditionally(map, nthreads, nodes))

\* The (thread, node) pairs the scheduling pass registers.
Registered(map, nthreads, nodes) ==
  {p \in (0..(nthreads - 1)) \X (0..(nodes - 1)) : Touches(map, nodes, p[1], p[2])}

\* first_hist of MatchNodeNidPairToHist is still true when the loops reach
\* (tid, nid): no lower thread touches nid.
FirstHist(map, nodes, tid, nid) ==
  \A t \in 0..(tid - 1) : ~Touches(map, nodes, t, nid)

MatchNodeNidPairToHist_NoIncrement(map, nthreads, nodes) ==
  [p \in Registered(map, nthreads, nodes) |->
     IF FirstHist(map, nodes, p[1], p[2]) THEN -1 ELSE 0]

MatchNodeNidPairToHist_AllTarget(map, nthreads, nodes) ==
  [p \in Registered(map, nthreads, nodes) |-> -1]

\* void MatchNodeNidPairToHist(): the new tid_nid_to_hist_.  The loops run
\* over nid, then tid, and hand out hist_allocated_additionally++ to every
\* touching pair that is not the first of its node: a pair's index is the
\* number of such pairs the loops met before it.
MatchNodeNidPairToHist(map, nthreads, nodes) ==
  [p \in Registered(map, nthreads, nodes) |->
     IF FirstHist(map, nodes, p[1], p[2])
     THEN -1
     ELSE Cardinality({q \in Registered(map, nthreads, nodes) :
                         /\ ~FirstHist(map, nodes, q[1], q[2])
                         /\ q[2] < p[2] \/ (q[2] = p[2] /\ q[1] < p[1])})]

\* ------------------------------------------------------ HistogramCuts (pure)

\* Floats are counted in halves, so that 5.5 and a category that is not a
\* whole number have a representation; comparisons are those of the floats.
\* NaN and negative values are left out.

RECURSIVE UpperBound(_, _, _, _)
\* std::upper_bound(values.cbegin() + first, values.cbegin() + first + len,
\* value) - values.cbegin(), by the bisection of the standard library.
UpperBound(values, first, len, value) ==
  IF len <= 0 THEN first
  ELSE LET half == len \div 2
           mid == first + half
       IN  IF value < values[mid + 1]
           THEN UpperBound(values, first, half, value)
           ELSE UpperBound(values, mid + 1, len - half - 1, value)

RECURSIVE LowerBound(_, _, _, _)
\* std::lower_bound over the same range.
LowerBound(values, first, len, value) ==
  IF len <= 0 THEN first
  ELSE LET half == len \div 2
           mid == first + half
       IN  IF values[mid + 1] < value
           THEN LowerBound(values, mid + 1, len - half - 1, value)
           ELSE LowerBound(values, first, half, value)

\* idx -= 1 on a BinIdx: 0 wraps to the largest uint32_t.
Decrement(idx) == IF idx = 0 THEN kMax ELSE idx - 1

\* cut_ptrs_.at(column_id) or cut_ptrs_.at(column_id + 1) throws.
SearchFails(ptrs, column_id) == column_id + 1 >= Len(ptrs)

SearchBin_NoClamp(values, ptrs, value, column_id) ==
  UpperBound(values, ptrs[column_id + 1], ptrs[column_id + 2] - ptrs[column_id + 1], value)

SearchBin_Lower(values, ptrs, value, column_id) ==
  LET beg == ptrs[column_id + 1]
      end == ptrs[column_id + 2]
      idx == LowerBound(values, beg, end - beg, value)
  IN  IF idx = end THEN Decrement(idx) ELSE idx

\* BinIdx SearchBin(float value, uint32_t column_id) const, when at() does not throw
SearchBin(values, ptrs, value, column_id) ==
  LET beg == ptrs[column_id + 1]
      end == ptrs[column_id + 2]
      idx == UpperBound(values, beg, end - beg, value)
  IN  IF idx = end THEN Decrement(idx) ELSE idx

\* common::AsCat(fvalue) as a float again: the value truncated to a whole number.
AsCat(v) == 2 * (v \div 2)

SearchCatBin_Upper(values, ptrs, fvalue, index) ==
  LET end == ptrs[index + 2]
      bin_idx == UpperBound(values, ptrs[index + 1], end - ptrs[index + 1], AsCat(fvalue))
  IN  IF bin_idx = end THEN Decrement(bin_idx) ELSE bin_idx

\* BinIdx SearchCatBin(Entry const &e) const, when at() does not throw;
\* e.fvalue and e.index are the arguments
SearchCatBin(values, ptrs, fvalue, index) ==
  LET end == ptrs[index + 2]
      beg == ptrs[index + 1]
      v == AsCat(fvalue)
      bin_idx == LowerBound(values, beg, end - beg, v)
  IN  IF bin_idx = end THEN Decrement(bin_idx) ELSE bin_idx

\* -------------------------------------------------------------- Index (pure)

\* An Index is the record of its fields: data_ is a sequence of bytes,
\* offset_ptr_ and data_ptr_ say what they point to, func_ names the decoder.

\* static uint32_t GetValueFromUint8(void *t, size_t i)
GetValueFromUint8(data, i) == data[i + 1]

\* static uint32_t GetValueFromUint16(void* t, size_t i): the uint16_t whose
\* two bytes, low byte first, are at 2 * i
GetValueFromUint16(data, i) == data[2 * i + 1] + 256 * data[2 * i + 2]

\* static uint32_t GetValueFromUint32(void* t, size_t i)
GetValueFromUint32(data, i) ==
  data[4 * i + 1] + 256 * data[4 * i + 2] + 65536 * data[4 * i + 3] + 16777216 * data[4 * i + 4]

\* func_(data_ptr_, i)
Func(ix, i) ==
  CASE ix.func_ = "GetValueFromUint8" -> GetValueFromUint8(ix.data_, i)
    [] ix.func_ = "GetValueFromUint16" -> GetValueFromUint16(ix.data_, i)
    [] ix.func_ = "GetValueFromUint32" -> GetValueFromUint32(ix.data_, i)

\* Index(): the member initialisers, then SetBinTypeSize(binTypeSize_).
\* data_ptr_ has no initialiser: it points nowhere until Resize.
IndexNew ==
  [data_ |-> <<>>, offset_ |-> <<>>, data_ptr_ |-> "unset", binTypeSize_ |-> 1,
   p_ |-> 1, offset_ptr_ |-> "nullptr", func_ |-> "GetValueFromUint8"]

\* void SetBinTypeSize(BinTypeSize binTypeSize), for the three values of the enum
SetBinTypeSize(ix, binTypeSize) ==
  [ix EXCEPT !.binTypeSize_ = binTypeSize,
             !.func_ = CASE binTypeSize = 1 -> "GetValueFromUint8"
                         [] binTypeSize = 2 -> "GetValueFromUint16"
                         [] binTypeSize = 4 -> "GetValueFromUint32"]

\* size_t Size() const
IndexSize(ix) == Len(ix.data_) \div ix.binTypeSize_

\* The check Resize makes of its argument against the offset table: none.
IndexResizeError(ix, nBytesData) == "ok"

\* void Resize(const size_t nBytesData)
IndexResize(ix, nBytesData) ==
  [ix EXCEPT !.data_ = Resize(ix.data_, nBytesData, 0), !.data_ptr_ = "data_"]

\* void ResizeOffset(const size_t nDisps)
ResizeOffset(ix, nDisps) ==
  [ix EXCEPT !.offset_ = Resize(ix.offset_, nDisps, 0), !.offset_ptr_ = "offset_", !.p_ = nDisps]

IndexAt_NoOffset(ix, i) == Func(ix, i)

\* uint32_t operator[](size_t i) const.  The sum is a uint32_t sum; the
\* values and offsets met here stay far below 2^32.
IndexAt(ix, i) ==
  IF ix.offset_ptr_ # "nullptr"
  THEN Func(ix, i) + ix.offset_[(i % ix.p_) + 1]
  ELSE Func(ix, i)

\* The bytes of v as an element of binTypeSize bytes, low byte first.
BytesOf(v, binTypeSize) ==
  [k \in 1..binTypeSize |->
     CASE k = 1 -> v % 256
       [] k = 2 -> (v \div 256) % 256
       [] k = 3 -> (v \div 65536) % 256
       [] k = 4 -> (v \div 16777216) % 256]

\* index.data<T>()[i] = v, T the unsigned type of binTypeSize_ bytes
IndexStore(ix, i, v) ==
  [ix EXCEPT !.data_ =
     [b \in 1..Len(@) |->
        IF b > ix.binTypeSize_ * i /\ b <= ix.binTypeSize_ * (i + 1)
        THEN BytesOf(v, ix.binTypeSize_)[b - ix.binTypeSize_ * i]
        ELSE @[b]]]

\* ------------------------------------------------------ BinarySearchBin (pure)

\* A uint32_t is the record of its top bit (hi) and its low 31 bits (lo), so
\* that the values from 2^31 on are told from those below.
U32(hi, lo) == [hi |-> hi, lo |-> lo]

\* a < b on uint32_t
Less(a, b) == a.hi < b.hi \/ (a.hi = b.hi /\ a.lo < b.lo)

\* static_cast<int32_t>(gidx): the value when it is below 2^31, the value
\* less 2^32 from there on (two's complement).
ToInt32(gidx) == IF gidx.hi = 0 THEN gidx.lo ELSE (gidx.lo - kMax) - 1

\* gidx >= fidx_begin && gidx < fidx_end
InFeature(gidx, fidx_begin, fidx_end) == ~Less(gidx, fidx_begin) /\ Less(gidx, fidx_end)

\* The call BinarySearchBin(begin, end, data, fidx_begin, fidx_end) at the
\* head of its loop.  previous_middle starts as
\* std::numeric_limits<size_t>::max(), which is no index of data: -1 here.
BinarySearchBinEntry(begin, end, data, fidx_begin, fidx_end) ==
  [pc |-> "loop", begin |-> begin, end |-> end, data |-> data,
   fidx_begin |-> fidx_begin, fidx_end |-> fidx_end,
   previous_middle |-> -1, result |-> 0, begin0 |-> begin, end0 |-> end]

\* One turn of the while loop, or the return that ends it.
BinarySearchBinStep(b) ==
  IF b.end = b.begin
  THEN [b EXCEPT !.pc = "done", !.result = -1]
  ELSE LET middle == b.begin + (b.end - b.begin) \div 2
           gidx == b.data[middle + 1]
       IN  IF middle = b.previous_middle
           THEN [b EXCEPT !.pc = "done", !.result = -1]
           ELSE IF InFeature(gidx, b.fidx_begin, b.fidx_end)
           THEN [b EXCEPT !.pc = "done", !.result = ToInt32(gidx), !.previous_middle = middle]
           ELSE IF Less(gidx, b.fidx_begin)
           THEN [b EXCEPT !.begin = middle, !.previous_middle = middle]
           ELSE [b EXCEPT !.end = middle, !.previous_middle = middle]

\* --------------------------------------------------------------- variables

VARIABLES
  hc,       \* a HistCollection used on its own
  added,    \* history: the node ids AddHistRow was called with since the last Init
  touched,  \* history: the node ids AllocateData was called with since they were added
  alloc,    \* history: the node ids whose storage was allocated, by AllocateData
            \* or AllocateAllData, since they were added
  ret,      \* how the last call ended: "ok", or the check that failed
  nbins_,               \* ParallelGHistBuilder's fields
  nthreads_,
  nodes_,
  hist_buffer_,
  hist_was_used_,
  threads_to_nids_map_,
  tid_nid_to_hist_,
  target,   \* the caller's histograms the spans of targeted_hists_ point to:
            \* targeted_hists_[nid] is the span over target[nid + 1]
  space,    \* the work space of the pass: space[i + 1] is the node of work unit i
  ptr,      \* ptr[tid + 1]: how many work units of its chunk thread tid has done
  pc,       \* "new", "idle", "build" (the parallel loop runs), "reduce", or
            \* "failed" (a check failed: the error ends the pass)
  reduced,  \* reduced[nid + 1]: bins [0, reduced) of node nid went through ReduceHist
  handed,   \* history: <<tid, nid, hist>> for every histogram GetInitializedHist
            \* returned to thread tid in this pass
  ca,       \* a HistCollection whose storage is allocated by AllocateAllData
  cn,       \* a HistCollection given the same calls as ca, whose storage is
            \* allocated by AllocateData node by node
  cut_values_,  \* HistogramCuts' fields
  cut_ptrs_,
  found,    \* the last search: its arguments, how it ended and what it returned
  index,    \* an Index
  stored,   \* history: <<i, v>> when v is the value written last at element i
            \* of index and the buffer kept its size and element width since
  got,      \* <<i, value>> when the last call was index[i] and returned value
  bsearch   \* a call of BinarySearchBin: its arguments, its locals, where it
            \* stands and what it returned

cvars == <<hc, added, touched, alloc>>

bvars == <<nbins_, nthreads_, nodes_, hist_buffer_, hist_was_used_, threads_to_nids_map_, tid_nid_to_hist_, target, space, ptr, pc, reduced, handed>>

pvars == <<ca, cn>>

hvars == <<cut_values_, cut_ptrs_, found>>

ivars == <<index, stored, got>>

ovars == <<pvars, hvars, ivars, bsearch>>

vars == <<cvars, ret, bvars, ovars>>

Nids == 0..MaxNid
BinCounts == 1..MaxBins
Vals == 1..MaxVal

\* ------------------------------------------------------------ initial state

\* The builder after construction (the member initialisers); no pass yet.
BuilderNew ==
  /\ nbins_ = 0
  /\ nthreads_ = 0
  /\ nodes_ = 0
  /\ hist_buffer_ = HC_New
  /\ hist_was_used_ = <<>>
  /\ threads_to_nids_map_ = <<>>
  /\ tid_nid_to_hist_ = <<>>
  /\ target = <<>>
  /\ space = <<>>
  /\ ptr = <<>>
  /\ pc = "new"
  /\ reduced = <<>>
  /\ handed = {}

\* HistogramCuts without cut points, no search made.
NoSearch == [op |-> "none", value |-> 0, column |-> 0, err |-> "ok", idx |-> 0]

CutsNew ==
  /\ cut_values_ = <<>>
  /\ cut_ptrs_ = <<0>>
  /\ found = NoSearch

IndexInit ==
  /\ index = IndexNew
  /\ stored = {}
  /\ got = <<>>

\* No call of BinarySearchBin.
NoBinarySearch ==
  [pc |-> "none", begin |-> 0, end |-> 0, data |-> <<>>,
   fidx_begin |-> U32(0, 0), fidx_end |-> U32(0, 0),
   previous_middle |-> -1, result |-> 0, begin0 |-> 0, end0 |-> 0]

Init ==
  /\ hc = HC_New
  /\ added = {}
  /\ touched = {}
  /\ alloc = {}
  /\ ret = "ok"
  /\ BuilderNew
  /\ ca = HC_New
  /\ cn = HC_New
  /\ CutsNew
  /\ IndexInit
  /\ bsearch = NoBinarySearch

\* ------------------------------------------------- HistCollection actions

DoInit(nbins) ==
  /\ hc' = HC_Init(hc, nbins)
  /\ added' = {}
  /\ touched' = {}
  /\ alloc' = {}
  /\ ret' = "ok"
  /\ UNCHANGED <<bvars, ovars>>

DoAddHistRow(nid) ==
  /\ IF AddHistRowFails(hc, nid)
     THEN /\ ret' = "CHECK_EQ"
          /\ hc' = hc
     ELSE /\ ret' = "ok"
          /\ hc' = HC_AddHistRow(hc, nid)
  /\ added' = added \cup {nid}
  /\ touched' = touched
  /\ alloc' = alloc
  /\ UNCHANGED <<bvars, ovars>>

\* AllocateData reads row_ptr_[nid] and data_[row_ptr_[nid]] unchecked: it is
\* called for nodes that exist only.
DoAllocateData(nid) ==
  /\ RowExists(hc, nid)
  /\ hc' = HC_AllocateData(hc, nid)
  /\ touched' = touched \cup {nid}
  /\ alloc' = alloc \cup {nid}
  /\ ret' = "ok"
  /\ UNCHANGED added
  /\ UNCHANGED <<bvars, ovars>>

\* AllocateAllData reads data_[0] unchecked: it is called once a row was added.
DoAllocateAllData ==
  /\ Len(hc.data) > 0
  /\ hc' = HC_AllocateAllData(hc)
  /\ alloc' = alloc \cup {nid \in Nids : RowExists(hc, nid)}
  /\ ret' = "ok"
  /\ UNCHANGED <<added, touched>>
  /\ UNCHANGED <<bvars, ovars>>

\* hist = collection[nid]; hist[bin] = v for every bin: the caller (the
\* histogram kernel) fills the node's histogram through the view.  A failing
\* operator[] writes nothing; a view outside its storage is not written
\* through.
DoFill(nid, v) ==
  /\ IF IndexFails(hc, nid)
     THEN /\ ret' = IndexError(hc, nid)
          /\ hc' = hc
     ELSE /\ ViewInStorage(hc, HC_View(hc, nid))
          /\ ret' = "ok"
          /\ hc' = LET w == HC_View(hc, nid)
                   IN  [hc EXCEPT !.data[w.arr + 1] =
                          [i \in 1..Len(@) |-> IF i > w.off /\ i <= w.off + w.size THEN v ELSE @[i]]]
  /\ UNCHANGED <<added, touched, alloc>>
  /\ UNCHANGED <<bvars, ovars>>

CollNext ==
  \/ \E nbins \in BinCounts : DoInit(nbins)
  \/ \E nid \in Nids : DoAddHistRow(nid)
  \/ \E nid \in Nids : DoAllocateData(nid)
  \/ DoAllocateAllData
  \/ \E nid \in Nids, v \in Vals : DoFill(nid, v)

CollSpec == Init /\ [][CollNext]_vars

\* ------------------------------ two HistCollections given the same calls

\* Init(nbins) on both collections.
PairInit(nbins) ==
  /\ ca' = HC_Init(ca, nbins)
  /\ cn' = HC_Init(cn, nbins)
  /\ ret' = "ok"
  /\ UNCHANGED <<cvars, bvars, hvars, ivars, bsearch>>

\* AddHistRow(nid) on both collections.
PairAddHistRow(nid) ==
  /\ IF AddHistRowFails(ca, nid) THEN ca' = ca ELSE ca' = HC_AddHistRow(ca, nid)
  /\ IF AddHistRowFails(cn, nid) THEN cn' = cn ELSE cn' = HC_AddHistRow(cn, nid)
  /\ ret' = IF AddHistRowFails(ca, nid) \/ AddHistRowFails(cn, nid) THEN "CHECK_EQ" ELSE "ok"
  /\ UNCHANGED <<cvars, bvars, hvars, ivars, bsearch>>

\* The storage of the rows added so far is allocated: by AllocateAllData on
\* ca, by AllocateData for every existing node on cn.
PairAllocate ==
  /\ Len(ca.data) > 0
  /\ ca' = HC_AllocateAllData(ca)
  /\ cn' = AllocateEach(cn, Len(cn.row_ptr))
  /\ ret' = "ok"
  /\ UNCHANGED <<cvars, bvars, hvars, ivars, bsearch>>

\* The same value is written to every bin of node nid in both collections,
\* through the views operator[](nid) returns.
PairFill(nid, v) ==
  /\ ~IndexFails(ca, nid) /\ ~IndexFails(cn, nid)
  /\ ViewInStorage(ca, HC_View(ca, nid))
  /\ ViewInStorage(cn, HC_View(cn, nid))
  /\ ca' = HC_Fill(ca, nid, v)
  /\ cn' = HC_Fill(cn, nid, v)
  /\ ret' = "ok"
  /\ UNCHANGED <<cvars, bvars, hvars, ivars, bsearch>>

PairNext ==
  \/ \E nbins \in BinCounts : PairInit(nbins)
  \/ \E nid \in Nids : PairAddHistRow(nid)
  \/ PairAllocate
  \/ \E nid \in Nids, v \in Vals : PairFill(nid, v)

PairSpec == Init /\ [][PairNext]_vars

\* ---------------------------------------------------- HistogramCuts actions

\* The ascending slices of cut points a feature can have.
Slices ==
  {sl \in UNION {[1..n -> 0..MaxCutVal] : n \in 0..MaxCuts} :
     \A i \in 1..Len(sl), j \in 1..Len(sl) : i < j => sl[i] <= sl[j]}

\* The cuts of the documented examples: feature 0 has the boundaries
\* 2.0, 5.0, 9.0 and feature 1 the categories 1, 3, 7.
ExampleValues == <<4, 10, 18, 2, 6, 14>>
ExamplePtrs == <<0, 3, 6>>

\* The values of the examples: 1.0, 2.0, 5.5, 100.0 and the categories 3, 8.
ExampleQueries == {2, 4, 11, 200, 6, 16}

Queries == 0..(MaxCutVal + 1) \cup ExampleQueries

\* Cuts of two features (a CSC layout: the slices one after the other, the
\* pointers one longer than the features), no search made yet.
CutInit ==
  /\ hc = HC_New
  /\ added = {}
  /\ touched = {}
  /\ alloc = {}
  /\ ret = "ok"
  /\ BuilderNew
  /\ ca = HC_New
  /\ cn = HC_New
  /\ found = NoSearch
  /\ IndexInit
  /\ bsearch = NoBinarySearch
  /\ \/ cut_values_ = ExampleValues /\ cut_ptrs_ = ExamplePtrs
     \/ \E s0 \in Slices, s1 \in Slices :
          /\ cut_values_ = s0 \o s1
          /\ cut_ptrs_ = <<0, Len(s0), Len(s0) + Len(s1)>>

\* SearchBin(value, column_id).  A search reads the cuts and changes
\* nothing, so a behaviour makes one search: a second search from the same
\* cuts is the first search of another behaviour.
DoSearchBin(value, column_id) ==
  /\ found.op = "none"
  /\ found' = IF SearchFails(cut_ptrs_, column_id)
              THEN [op |-> "SearchBin", value |-> value, column |-> column_id,
                    err |-> "out_of_range", idx |-> 0]
              ELSE [op |-> "SearchBin", value |-> value, column |-> column_id,
                    err |-> "ok", idx |-> SearchBin(cut_values_, cut_ptrs_, value, column_id)]
  /\ UNCHANGED <<cut_values_, cut_ptrs_, cvars, ret, bvars, pvars, ivars, bsearch>>

\* SearchCatBin(e) with e.fvalue = value and e.index = column_id
DoSearchCatBin(value, column_id) ==
  /\ found.op = "none"
  /\ found' = IF SearchFails(cut_ptrs_, column_id)
              THEN [op |-> "SearchCatBin", value |-> value, column |-> column_id,
                    err |-> "out_of_range", idx |-> 0]
              ELSE [op |-> "SearchCatBin", value |-> value, column |-> column_id,
                    err |-> "ok", idx |-> SearchCatBin(cut_values_, cut_ptrs_, value, column_id)]
  /\ UNCHANGED <<cut_values_, cut_ptrs_, cvars, ret, bvars, pvars, ivars, bsearch>>

CutNext ==
  \/ \E value \in Queries, column_id \in 0..2 : DoSearchBin(value, column_id)
  \/ \E value \in Queries, column_id \in 0..2 : DoSearchCatBin(value, column_id)

CutSpec == CutInit /\ [][CutNext]_vars

\* ------------------------------------------------------------ Index actions

\* The element widths of enum BinTypeSize.
BinTypeSizes == {1, 2, 4}

\* The values written: the ends of the ranges of one and two bytes, and a
\* value whose fourth byte is set.
StoredValues == {0, 1, 255, 256, 65535, 16777216}

\* v is a value of an element of binTypeSize bytes.
FitsIn(v, binTypeSize) ==
  CASE binTypeSize = 1 -> v < 256
    [] binTypeSize = 2 -> v < 65536
    [] binTypeSize = 4 -> TRUE

DoSetBinTypeSize(binTypeSize) ==
  /\ index' = SetBinTypeSize(index, binTypeSize)
  /\ stored' = IF binTypeSize = index.binTypeSize_ THEN stored ELSE {}
  /\ got' = <<>>
  /\ ret' = "ok"
  /\ UNCHANGED <<cvars, bvars, pvars, hvars, bsearch>>

DoResize(nBytesData) ==
  /\ ret' = IndexResizeError(index, nBytesData)
  /\ index' = IndexResize(index, nBytesData)
  /\ stored' = IF nBytesData = Len(index.data_) THEN stored ELSE {}
  /\ got' = <<>>
  /\ UNCHANGED <<cvars, bvars, pvars, hvars, bsearch>>

\* ResizeOffset(nDisps), then the caller fills the table through Offset():
\* entry j holds j * step.
DoResizeOffset(nDisps, step) ==
  /\ index' = [ResizeOffset(index, nDisps) EXCEPT !.offset_ = [j \in 1..nDisps |-> (j - 1) * step]]
  /\ got' = <<>>
  /\ ret' = "ok"
  /\ UNCHANGED stored
  /\ UNCHANGED <<cvars, bvars, pvars, hvars, bsearch>>

\* The caller writes v at element i of the buffer, through data<T>().
DoStore(i, v) ==
  /\ index.data_ptr_ = "data_"
  /\ i < IndexSize(index)
  /\ FitsIn(v, index.binTypeSize_)
  /\ index' = IndexStore(index, i, v)
  /\ stored' = {e \in stored : e[1] # i} \cup {<<i, v>>}
  /\ got' = <<>>
  /\ ret' = "ok"
  /\ UNCHANGED <<cvars, bvars, pvars, hvars, bsearch>>

\* The element i of the buffer is below 127 * 2^24, so that it and its sum
\* with an offset are integers the model checker can hold.
Holdable(ix, i) == ix.binTypeSize_ = 4 => ix.data_[4 * i + 4] < 127

\* index[i] for an element of the buffer.
DoIndexAt(i) ==
  /\ index.data_ptr_ = "data_"
  /\ i < IndexSize(index)
  /\ Holdable(index, i)
  /\ got' = <<i, IndexAt(index, i)>>
  /\ ret' = "ok"
  /\ UNCHANGED <<index, stored>>
  /\ UNCHANGED <<cvars, bvars, pvars, hvars, bsearch>>

IndexNext ==
  \/ \E binTypeSize \in BinTypeSizes : DoSetBinTypeSize(binTypeSize)
  \/ \E nBytesData \in 0..MaxBytes : DoResize(nBytesData)
  \/ \E nDisps \in 1..MaxOffsets, step \in 0..MaxStep : DoResizeOffset(nDisps, step)
  \/ \E i \in 0..(MaxBytes - 1), v \in StoredValues : DoStore(i, v)
  \/ \E i \in 0..(MaxBytes - 1) : DoIndexAt(i)

IndexSpec == Init /\ [][IndexNext]_vars

\* -------------------------------------------------- BinarySearchBin actions

\* The global bin ids of the data and of the feature ranges.
Gids == {U32(0, lo) : lo \in 0..MaxId} \cup {U32(1, lo) : lo \in 0..MaxTopId}

\* The data: ascending sequences of global bin ids, no id twice.
GidSeqs ==
  {d \in UNION {[1..n -> Gids] : n \in 0..MaxData} :
     \A i \in 1..Len(d), j \in 1..Len(d) : i < j => Less(d[i], d[j])}

\* The ids of data[begin..end) that lie in [fidx_begin, fidx_end).
InRange(data, begin, end, fidx_begin, fidx_end) ==
  {i \in (begin + 1)..end : InFeature(data[i], fidx_begin, fidx_end)}

\* A call BinarySearchBin(begin, end, data, fidx_begin, fidx_end) is entered
\* on data[begin..end) that holds at most one id of the feature.
BinInit ==
  /\ hc = HC_New
  /\ added = {}
  /\ touched = {}
  /\ alloc = {}
  /\ ret = "ok"
  /\ BuilderNew
  /\ ca = HC_New
  /\ cn = HC_New
  /\ CutsNew
  /\ IndexInit
  /\ \E data \in GidSeqs, fidx_begin \in Gids, fidx_end \in Gids :
       \E begin \in 0..Len(data) :
         \E end \in begin..Len(data) :
           /\ Cardinality(InRange(data, begin, end, fidx_begin, fidx_end)) <= 1
           /\ bsearch = BinarySearchBinEntry(begin, end, data, fidx_begin, fidx_end)

DoBinarySearchBinStep ==
  /\ bsearch.pc = "loop"
  /\ bsearch' = BinarySearchBinStep(bsearch)
  /\ UNCHANGED <<cvars, ret, bvars, pvars, hvars, ivars>>

BinNext == DoBinarySearchBinStep

BinSpec == BinInit /\ [][BinNext]_vars

\* The loop is a thread's own: it goes on until it returns.
BinFairSpec == BinSpec /\ WF_vars(BinNext)

\* ------------------------------------------ ParallelGHistBuilder operations

Threads == 0..(MaxThreads - 1)
Nodes == 0..(MaxNodes - 1)

\* The work spaces of at most MaxSpace units over `nodes` nodes, the units
\* ordered by node as BlockedSpace2d lays them out.
Spaces(nodes) ==
  {sp \in UNION {[1..n -> 0..(nodes - 1)] : n \in 0..MaxSpace} :
     \A i \in 1..Len(sp), j \in 1..Len(sp) : i < j => sp[i] <= sp[j]}

\* Spaces by number of nodes.
AllSpaces == [nodes \in 1..MaxNodes |-> Spaces(nodes)]

\* The index of (tid, nid) in hist_was_used_ and threads_to_nids_map_.
Slot(tid, nid) == tid * nodes_ + nid + 1

\* The check of GetInitializedHist(tid, nid) that fails, or "ok".
GetInitializedHistError(tid, nid) ==
  IF nid >= nodes_ \/ tid >= nthreads_ THEN "CHECK_LT"
  ELSE IF <<tid, nid>> \notin DOMAIN tid_nid_to_hist_ THEN "out_of_range"
  ELSE "ok"

\* The histogram GetInitializedHist(tid, nid) returns, by where it lives:
\* targeted_hists_[nid], or the view hist_buffer_[idx] of a vector of data_.
HistOf(hb, tid, nid) ==
  LET idx == tid_nid_to_hist_[<<tid, nid>>]
  IN  IF idx = -1
      THEN [kind |-> "target", arr |-> nid, off |-> 0]
      ELSE [kind |-> "scratch", arr |-> HC_View(hb, idx).arr, off |-> HC_View(hb, idx).off]

\* The nbins_ entries of a histogram.
ReadHist(tgt, hb, h) ==
  IF h.kind = "target"
  THEN tgt[h.arr + 1]
  ELSE [i \in 1..hb.nbins |-> hb.data[h.arr + 1][h.off + i]]

\* The builder's memory with the entries of histogram h replaced by vals.
WriteHist(tgt, hb, used, h, vals) ==
  IF h.kind = "target"
  THEN [tgt |-> [tgt EXCEPT ![h.arr + 1] = vals], hb |-> hb, used |-> used]
  ELSE [tgt |-> tgt,
        hb |-> [hb EXCEPT !.data[h.arr + 1] =
                  [i \in 1..Len(@) |->
                     IF i > h.off /\ i <= h.off + hb.nbins THEN vals[i - h.off] ELSE @[i]]],
        used |-> used]

GetInitializedHist_NoZero(tgt, hb, used, tid, nid) ==
  LET idx == tid_nid_to_hist_[<<tid, nid>>]
      hb1 == IF idx >= 0 THEN HC_AllocateData(hb, idx) ELSE hb
  IN  [tgt |-> tgt, hb |-> hb1, used |-> [used EXCEPT ![Slot(tid, nid)] = TRUE]]

GetInitializedHist_ZeroAlways(tgt, hb, used, tid, nid) ==
  LET idx == tid_nid_to_hist_[<<tid, nid>>]
      hb1 == IF idx >= 0 THEN HC_AllocateData(hb, idx) ELSE hb
      hist == HistOf(hb1, tid, nid)
      m == WriteHist(tgt, hb1, used, hist, Zeros(nbins_))
  IN  [m EXCEPT !.used = [used EXCEPT ![Slot(tid, nid)] = TRUE]]

\* GHistRowT GetInitializedHist(size_t tid, size_t nid), when no check fails:
\* the targets, hist_buffer_ and hist_was_used_ it leaves.
GetInitializedHist(tgt, hb, used, tid, nid) ==
  LET idx == tid_nid_to_hist_[<<tid, nid>>]
      hb1 == IF idx >= 0 THEN HC_AllocateData(hb, idx) ELSE hb
      hist == HistOf(hb1, tid, nid)
  IN  IF ~used[Slot(tid, nid)]
      THEN LET m == WriteHist(tgt, hb1, used, hist,
                              InitilizeHistByZeroes(ReadHist(tgt, hb1, hist), 0, nbins_))
           IN  [m EXCEPT !.used = [used EXCEPT ![Slot(tid, nid)] = TRUE]]
      ELSE [tgt |-> tgt, hb |-> hb1, used |-> used]

GetInitializedHistOrThrow_MarkFirst(tgt, hb, used, tid, nid) ==
  IF GetInitializedHistError(tid, nid) = "ok"
  THEN GetInitializedHist(tgt, hb, used, tid, nid)
  ELSE [tgt |-> tgt, hb |-> hb,
        used |-> IF Slot(tid, nid) \in DOMAIN used
                 THEN [used EXCEPT ![Slot(tid, nid)] = TRUE] ELSE used]

\* GetInitializedHist(tid, nid) whether or not a check fails: CHECK_LT and
\* at() raise before anything is written, so a failing call leaves the
\* targets, hist_buffer_ and hist_was_used_ as they were.
GetInitializedHistOrThrow(tgt, hb, used, tid, nid) ==
  IF GetInitializedHistError(tid, nid) = "ok"
  THEN GetInitializedHist(tgt, hb, used, tid, nid)
  ELSE [tgt |-> tgt, hb |-> hb, used |-> used]

\* The check of ReduceHist(nid, begin, end) that fails, or "ok".
ReduceHistError(nid, begin, end) ==
  IF ~(end > begin) THEN "CHECK_GT"
  ELSE IF ~(nid < nodes_) THEN "CHECK_LT"
  ELSE "ok"

RECURSIVE ReduceLoop(_, _, _, _, _, _)
\* The loop of ReduceHist from thread tid on, over the targets tgt: dst after
\* it.  dst.data() != src.data() compares where the two histograms live.
ReduceLoop(tgt, dst, tid, nid, begin, end) ==
  IF tid >= nthreads_ THEN dst
  ELSE IF hist_was_used_[Slot(tid, nid)]
       THEN LET src == HistOf(hist_buffer_, tid, nid)
            IN  ReduceLoop(tgt,
                           IF src # [kind |-> "target", arr |-> nid, off |-> 0]
                           THEN IncrementHist(dst, ReadHist(tgt, hist_buffer_, src), begin, end)
                           ELSE dst,
                           tid + 1, nid, begin, end)
       ELSE ReduceLoop(tgt, dst, tid + 1, nid, begin, end)

\* is_updated of ReduceHist after its loop
IsUpdated(nid) == \E tid \in 0..(nthreads_ - 1) : hist_was_used_[Slot(tid, nid)]

ReduceHist_NoZeroFill(tgt, nid, begin, end) ==
  ReduceLoop(tgt, tgt[nid + 1], 0, nid, begin, end)

ReduceHist_WholeHist(tgt, nid, begin, end) ==
  IF IsUpdated(nid)
  THEN ReduceLoop(tgt, tgt[nid + 1], 0, nid, 0, nbins_)
  ELSE InitilizeHistByZeroes(tgt[nid + 1], 0, nbins_)

\* void ReduceHist(size_t nid, size_t begin, size_t end) const, when no
\* check fails: the entries of targeted_hists_[nid] it leaves, the targets
\* holding tgt before the call.
ReduceHist(tgt, nid, begin, end) ==
  IF IsUpdated(nid)
  THEN ReduceLoop(tgt, tgt[nid + 1], 0, nid, begin, end)
  ELSE InitilizeHistByZeroes(tgt[nid + 1], begin, end)

\* --------------------------------------------- ParallelGHistBuilder actions

\* builder.Init(nbins) on the constructed builder.
DoBuilderInit ==
  /\ pc = "new"
  /\ hist_buffer_' = HC_Init(hist_buffer_, MaxBins)
  /\ nbins_' = MaxBins
  /\ pc' = "idle"
  /\ ret' = "ok"
  /\ UNCHANGED <<nthreads_, nodes_, hist_was_used_, threads_to_nids_map_, tid_nid_to_hist_, target, space, ptr, reduced, handed>>
  /\ UNCHANGED <<cvars, ovars>>

\* The pass ran to completion: every thread did the work units of its chunk
\* and every node was reduced over all its bins.
PassComplete ==
  /\ pc = "reduce"
  /\ \A n \in 1..nodes_ : reduced[n] = nbins_
  /\ \A t \in 0..(nthreads_ - 1) :
       ChunkBegin(Len(space), nthreads_, t) + ptr[t + 1] >= ChunkEnd(Len(space), nthreads_, t)

\* Reset(nthreads, nodes, space, targeted_hists) before the first pass and
\* after a pass that ran to completion.  The caller hands in `nodes`
\* histograms of nbins_ entries; what they hold is the caller's: every entry
\* holds st here.
Reset(nthreads, nodes, sp, st) ==
  /\ LET map == MatchThreadsToNodes(sp, nthreads, nodes)
     IN  /\ hist_buffer_' = AllocateAdditionalHistograms(HC_Init(hist_buffer_, nbins_), map, nthreads, nodes)
         /\ threads_to_nids_map_' = map
         /\ tid_nid_to_hist_' = MatchNodeNidPairToHist(map, nthreads, nodes)
  /\ nodes_' = nodes
  /\ nthreads_' = nthreads
  /\ hist_was_used_' = [k \in 1..(nthreads * nodes) |-> FALSE]
  /\ target' = [n \in 1..nodes |-> [i \in 1..nbins_ |-> st]]
  /\ space' = sp
  /\ ptr' = [t \in 1..nthreads |-> 0]
  /\ reduced' = [n \in 1..nodes |-> 0]
  /\ handed' = {}
  /\ pc' = "build"
  /\ ret' = "ok"
  /\ UNCHANGED nbins_
  /\ UNCHANGED <<cvars, ovars>>

DoReset(nthreads, nodes, sp, st) ==
  /\ pc = "idle" \/ PassComplete
  /\ Reset(nthreads, nodes, sp, st)

\* The work spaces of at most MaxWideSpace units over `nodes` nodes.
WideSpaces(nodes) ==
  {sp \in UNION {[1..n -> 0..(nodes - 1)] : n \in 0..MaxWideSpace} :
     \A i \in 1..Len(sp), j \in 1..Len(sp) : i < j => sp[i] <= sp[j]}

\* Wide spaces by number of nodes.
AllWideSpaces == [nodes \in 1..MaxNodes |-> WideSpaces(nodes)]

\* The first Reset of a builder, over a wide work space; the targets hold 0.
DoFirstReset(nthreads, nodes, sp) ==
  /\ pc = "idle"
  /\ Reset(nthreads, nodes, sp, 0)

\* The scheduling of passes alone, over wider work spaces.
ResetNext ==
  \/ DoBuilderInit
  \/ \E nthreads \in 1..MaxThreads, nodes \in 1..MaxNodes :
       \E sp \in AllWideSpaces[nodes] : DoFirstReset(nthreads, nodes, sp)

ResetSpec == Init /\ [][ResetNext]_vars

\* GetInitializedHist(tid, nid) called on its own during the parallel loop.
DoGetInitializedHist(tid, nid) ==
  /\ pc = "build"
  /\ ret' = GetInitializedHistError(tid, nid)
  /\ LET m == GetInitializedHistOrThrow(target, hist_buffer_, hist_was_used_, tid, nid)
     IN  /\ target' = m.tgt
         /\ hist_buffer_' = m.hb
         /\ hist_was_used_' = m.used
         /\ IF GetInitializedHistError(tid, nid) = "ok"
            THEN /\ handed' = handed \cup {<<tid, nid, HistOf(m.hb, tid, nid)>>}
                 /\ pc' = pc
            ELSE /\ handed' = handed
                 /\ pc' = "failed"
  /\ UNCHANGED <<nbins_, nthreads_, nodes_, threads_to_nids_map_, tid_nid_to_hist_, space, ptr, reduced>>
  /\ UNCHANGED <<cvars, ovars>>

\* The work unit thread tid does next, and the bin its contribution goes to.
NextUnit(tid) == ChunkBegin(Len(space), nthreads_, tid) + ptr[tid + 1]

BinOfUnit(u) == u % nbins_

\* The body of the caller's parallel loop for the next work unit of thread
\* tid's chunk: hist = GetInitializedHist(tid, node of the unit), then the
\* unit's contribution (one, to the unit's bin) is added to hist.
DoBuildUnit(tid) ==
  /\ pc = "build"
  /\ tid < nthreads_
  /\ NextUnit(tid) < ChunkEnd(Len(space), nthreads_, tid)
  /\ LET nid == space[NextUnit(tid) + 1]
         bin == BinOfUnit(NextUnit(tid))
         m == GetInitializedHistOrThrow(target, hist_buffer_, hist_was_used_, tid, nid)
     IN  /\ ret' = GetInitializedHistError(tid, nid)
         /\ IF GetInitializedHistError(tid, nid) = "ok"
            THEN LET hist == HistOf(m.hb, tid, nid)
                     old == ReadHist(m.tgt, m.hb, hist)
                     w == WriteHist(m.tgt, m.hb, m.used, hist, [old EXCEPT ![bin + 1] = @ + 1])
                 IN  /\ target' = w.tgt
                     /\ hist_buffer_' = w.hb
                     /\ hist_was_used_' = w.used
                     /\ handed' = handed \cup {<<tid, nid, hist>>}
                     /\ ptr' = [ptr EXCEPT ![tid + 1] = @ + 1]
                     /\ pc' = pc
            ELSE /\ target' = m.tgt
                 /\ hist_buffer_' = m.hb
                 /\ hist_was_used_' = m.used
                 /\ pc' = "failed"
                 /\ UNCHANGED <<handed, ptr>>
  /\ UNCHANGED <<nbins_, nthreads_, nodes_, threads_to_nids_map_, tid_nid_to_hist_, space, reduced>>
  /\ UNCHANGED <<cvars, ovars>>

\* The parallel loop has ended: every thread has stopped aggregating.
DoBarrier ==
  /\ pc = "build"
  /\ pc' = "reduce"
  /\ ret' = "ok"
  /\ UNCHANGED <<nbins_, nthreads_, nodes_, hist_buffer_, hist_was_used_, threads_to_nids_map_, tid_nid_to_hist_, target, space, ptr, reduced, handed>>
  /\ UNCHANGED <<cvars, ovars>>

\* ReduceHist(nid, begin, end) after the loop.  A call whose check fails
\* throws out of a const method and changes nothing: a stuttering step.  The
\* caller reduces the bins of every node once, in blocks; the calls are taken
\* node after node and block after block (calls for different nodes commute,
\* see C5_ReduceHistNodeLocal).
DoReduceHist(nid, begin, end) ==
  /\ pc = "reduce"
  /\ ReduceHistError(nid, begin, end) = "ok"
  /\ end <= nbins_
  /\ begin = reduced[nid + 1]
  /\ \A n \in 1..nid : reduced[n] = nbins_
  /\ target' = [target EXCEPT ![nid + 1] = ReduceHist(target, nid, begin, end)]
  /\ reduced' = [reduced EXCEPT ![nid + 1] = end]
  /\ ret' = "ok"
  /\ UNCHANGED <<nbins_, nthreads_, nodes_, hist_buffer_, hist_was_used_, threads_to_nids_map_, tid_nid_to_hist_, space, ptr, pc, handed>>
  /\ UNCHANGED <<cvars, ovars>>

\* The guards stand before the inputs so that no input is drawn for a call
\* that cannot be made.
Next ==
  \/ DoBuilderInit
  \/ /\ pc = "idle" \/ PassComplete
     /\ \E nthreads \in 1..MaxThreads, nodes \in 1..MaxNodes, st \in 0..MaxVal :
          \E sp \in AllSpaces[nodes] : DoReset(nthreads, nodes, sp, st)
  \/ /\ pc = "build"
     /\ \E tid \in 0..MaxThreads, nid \in 0..MaxNodes : DoGetInitializedHist(tid, nid)
  \/ /\ pc = "build"
     /\ \E tid \in Threads : DoBuildUnit(tid)
  \/ DoBarrier
  \/ /\ pc = "reduce"
     /\ \E nid \in Nodes, begin \in 0..(MaxBins - 1), end \in 1..MaxBins : DoReduceHist(nid, begin, end)

Spec == Init /\ [][Next]_vars

\* ------------------------------------------ ParallelGHistBuilder: properties

\* The work units of thread tid's chunk, and those of them it has done.
ChunkOf(tid) ==
  {u \in 0..(Len(space) - 1) :
     /\ ChunkBegin(Len(space), nthreads_, tid) <= u
     /\ u < ChunkEnd(Len(space), nthreads_, tid)}

DoneOf(tid) == {u \in ChunkOf(tid) : u < NextUnit(tid)}

\* The serial per-bin sum of the contributions of the work units of node nid.
SerialSum(nid, bin) ==
  Cardinality({u \in 0..(Len(space) - 1) : space[u + 1] = nid /\ BinOfUnit(u) = bin})

\* What the threads accumulated for node nid in this pass, per bin.
Accumulated(nid, bin) ==
  Cardinality({u \in UNION {DoneOf(tid) : tid \in 0..(nthreads_ - 1)} :
                 space[u + 1] = nid /\ BinOfUnit(u) = bin})

\* The pass of C1: every thread did every work unit of its chunk, asked for
\* no histogram but those of its work units, and every node was reduced over
\* all its bins.
FullPass ==
  /\ PassComplete
  /\ \A h \in handed : \E u \in ChunkOf(h[1]) : space[u + 1] = h[2]

\* C1: after Reset, every thread adding the contribution of each work unit of
\* its chunk into GetInitializedHist(tid, node of the unit), and
\* ReduceHist(nid, 0, nbins) for every node (in one block or several), every
\* node's target holds the serial per-bin sum of the contributions of the
\* node's work units, whatever the thread count and whatever the targets and
\* the scratch histograms held before.
C1_ReductionComplete ==
  FullPass =>
    \A nid \in 0..(nodes_ - 1), bin \in 0..(nbins_ - 1) :
      target[nid + 1][bin + 1] = SerialSum(nid, bin)

\* A full pass of three threads over one node: the target holds a sum that
\* two threads contributed to.
C1_Witness ==
  /\ FullPass
  /\ nthreads_ = 3
  /\ \E nid \in 0..(nodes_ - 1), bin \in 0..(nbins_ - 1) :
       /\ target[nid + 1][bin + 1] >= 2
       /\ \E h \in handed : h[2] = nid /\ h[3].kind = "scratch"

\* C2 as stated: after the parallel loop, whichever of the registered
\* (thread, node) pairs called GetInitializedHist, the bins of a node's target
\* that went through ReduceHist hold the sum of what the threads accumulated
\* for the node in this pass (zero if none did).
C2_NoStaleData ==
  pc = "reduce" =>
    \A nid \in 0..(nodes_ - 1), bin \in 0..(nbins_ - 1) :
      bin < reduced[nid + 1] => target[nid + 1][bin + 1] = Accumulated(nid, bin)

NoUnits(nid) == \A u \in 1..Len(space) : space[u] # nid

NoCalls(nid) == \A h \in handed : h[2] # nid

\* C3: for a node that has no work units in the work space, or for which no
\* thread called GetInitializedHist during the pass, ReduceHist(nid, begin,
\* end) leaves every bin in [begin, end) of the node's target zero.
C3_EmptyNodeZeroFill ==
  [][\A nid \in Nodes, begin \in 0..(MaxBins - 1), end \in 1..MaxBins :
       (DoReduceHist(nid, begin, end) /\ (NoUnits(nid) \/ NoCalls(nid))) =>
         \A b \in (begin + 1)..end : target'[nid + 1][b] = 0]_vars

\* ReduceHist(nid, 0, 1) has acted on a node no thread asked a histogram for,
\* whose target held non-zero entries: bin 0 is zero, bin 1 still holds what
\* the caller left there.
C3_Witness ==
  /\ pc = "reduce"
  /\ \E nid \in 0..(nodes_ - 1) :
       /\ NoCalls(nid)
       /\ reduced[nid + 1] = 1
       /\ target[nid + 1][1] = 0
       /\ target[nid + 1][2] # 0

\* C4: the histograms GetInitializedHist returned to two different threads
\* since the last Reset, for any nodes, are never the same buffer.
C4_ExclusiveOwnership ==
  \A h1 \in handed, h2 \in handed : h1[1] # h2[1] => h1[3] # h2[3]

\* Three threads hold histograms of the same node: the target and two
\* scratch rows.
C4_Witness ==
  \E h1 \in handed, h2 \in handed, h3 \in handed :
    /\ h1[2] = h2[2] /\ h2[2] = h3[2]
    /\ h1[3].kind = "target"
    /\ h2[3].kind = "scratch" /\ h3[3].kind = "scratch"
    /\ h2[1] # h3[1]

\* The targets after ReduceHist(nid, begin, end) on the targets tgt.
Reduced(tgt, nid, begin, end) == [tgt EXCEPT ![nid + 1] = ReduceHist(tgt, nid, begin, end)]

\* ReduceHist calls for two distinct nodes leave the same targets in either order.
ReduceCommutes ==
  pc = "reduce" =>
    \A n1 \in 0..(nodes_ - 1), n2 \in 0..(nodes_ - 1) :
      n1 # n2 =>
        \A b1 \in 0..(nbins_ - 1), b2 \in 0..(nbins_ - 1) :
          \A e1 \in (b1 + 1)..nbins_, e2 \in (b2 + 1)..nbins_ :
            Reduced(Reduced(target, n1, b1, e1), n2, b2, e2)
              = Reduced(Reduced(target, n2, b2, e2), n1, b1, e1)

Unregistered(tid, nid) ==
  \/ tid >= nthreads_
  \/ nid >= nodes_
  \/ ~threads_to_nids_map_[Slot(tid, nid)]

\* C6: GetInitializedHist(tid, nid) for a pair the last Reset did not
\* register, or with tid >= nthreads or nid >= nodes, raises an error,
\* returns no histogram and leaves the used-flags and every histogram as
\* they were.
C6_UnregisteredRejected ==
  [][\A tid \in 0..MaxThreads, nid \in 0..MaxNodes :
       (DoGetInitializedHist(tid, nid) /\ Unregistered(tid, nid)) =>
         /\ ret' \in {"CHECK_LT", "out_of_range"}
         /\ pc' = "failed"
         /\ handed' = handed
         /\ UNCHANGED <<hist_was_used_, target, hist_buffer_>>]_vars

\* A call for a pair in range that was not registered has failed in a pass
\* in which histograms were already handed out.
C6_Witness ==
  /\ pc = "failed"
  /\ ret = "out_of_range"
  /\ handed # {}

\* ------------------------------------------------ HistCollection: properties

\* The row of data_ that holds node nid's histogram when it is allocated per node.
RowOf(h, nid) == h.data[h.row_ptr[nid + 1] + 1]

\* C7: Init called with the bin count the collection already has keeps data_
\* as it is (no per-node array dropped or resized), Init with another bin
\* count leaves data_ empty, and after either no node reports RowExists.
C7_IdempotentInit ==
  [][\A nbins \in BinCounts :
       DoInit(nbins) =>
         /\ hc.nbins = nbins => hc'.data = hc.data
         /\ hc.nbins # nbins => hc'.data = <<>>
         /\ \A nid \in 0..(MaxNid + 1) : ~RowExists(hc', nid)]_vars

\* An Init with the same bin count has acted on a collection that holds
\* allocated histograms: the storage is there, the registration is gone.
C7_Witness ==
  /\ hc.row_ptr = <<>>
  /\ hc.n_nodes_added = 0
  /\ \E i \in 1..Len(hc.data) : Len(hc.data[i]) = hc.nbins /\ hc.nbins > 0

C9_AddHistRowTwice ==
  [][\A nid \in Nids :
       DoAddHistRow(nid) =>
         /\ nid \in added => ret' = "CHECK_EQ" /\ hc' = hc
         /\ nid \notin added =>
              /\ ret' = "ok"
              /\ hc'.row_ptr[nid + 1] = hc.n_nodes_added
              /\ hc'.n_nodes_added = hc.n_nodes_added + 1]_vars

\* A second AddHistRow of the same node has failed.
C9_Witness == ret = "CHECK_EQ" /\ hc.n_nodes_added > 0

\* C10: RowExists(nid) is true exactly for the node ids AddHistRow was called
\* with since the last Init, and operator[] fails for every nid for which
\* RowExists is false, beyond the table or inside it.
C10_RegistrationGatesAccess ==
  \A nid \in 0..(MaxNid + 1) :
    /\ RowExists(hc, nid) <=> nid \in added
    /\ ~RowExists(hc, nid) => IndexFails(hc, nid)
    /\ RowExists(hc, nid) => ~IndexFails(hc, nid)

\* operator[] has failed for an id inside the table that was never added,
\* while a higher id is added.
C10_Witness ==
  /\ ret = "CHECK_NE"
  /\ \E nid \in Nids : nid < Len(hc.row_ptr) /\ ~RowExists(hc, nid)
  /\ \E nid \in Nids : RowExists(hc, nid)

\* ------------------------------- HistCollection: contiguous and per node

\* C11: two collections given the same Init and AddHistRow calls and the
\* same values written per node, one allocated by AllocateAllData and one by
\* AllocateData per node, return the same values from operator[] for every
\* added node whose view lies in allocated storage in both.
C11_ContiguityInvariance ==
  \A nid \in Nids :
    (/\ RowExists(ca, nid) /\ RowExists(cn, nid)
     /\ ViewInStorage(ca, HC_View(ca, nid))
     /\ ViewInStorage(cn, HC_View(cn, nid)))
      => HC_Read(ca, nid) = HC_Read(cn, nid)

\* Two nodes of two bins each are allocated both ways; the node with row
\* index 1 holds a written value and the node with row index 0 holds zeros.
C11_Witness ==
  /\ ca.contiguous_allocation /\ ~cn.contiguous_allocation
  /\ ca.nbins = 2
  /\ \E n0 \in Nids, n1 \in Nids :
       /\ RowExists(ca, n0) /\ RowExists(ca, n1)
       /\ ca.row_ptr[n0 + 1] = 0 /\ ca.row_ptr[n1 + 1] = 1
       /\ ViewInStorage(ca, HC_View(ca, n1))
       /\ ViewInStorage(cn, HC_View(cn, n0)) /\ ViewInStorage(cn, HC_View(cn, n1))
       /\ HC_Read(cn, n0) = Zeros(2)
       /\ HC_Read(cn, n1) # Zeros(2)
       /\ HC_Read(ca, n1) = HC_Read(cn, n1)

\* ------------------------------------------------ HistogramCuts: properties

\* The boundaries of feature f are cut_values_[i] for i in SliceOf(f).
SliceOf(f) == {i \in 0..(Len(cut_values_) - 1) : cut_ptrs_[f + 1] <= i /\ i < cut_ptrs_[f + 2]}

\* The least element of a non-empty set of indices.
Least(S) == CHOOSE i \in S : \A j \in S : i <= j

\* The search was made on the cuts of the examples.
OnExample == cut_values_ = ExampleValues /\ cut_ptrs_ = ExamplePtrs

\* C12 as stated: for a feature with boundaries [2.0, 5.0, 9.0],
\* SearchBin(1.0) = 0, SearchBin(2.0) = 0, SearchBin(5.5) = 2 and
\* SearchBin(100.0) = 2.
C12_SearchBinExample ==
  (OnExample /\ found.op = "SearchBin" /\ found.column = 0) =>
    /\ found.err = "ok"
    /\ found.value = 2 => found.idx = 0
    /\ found.value = 4 => found.idx = 0
    /\ found.value = 11 => found.idx = 2
    /\ found.value = 200 => found.idx = 2

\* C12 amended: for a feature with boundaries [2.0, 5.0, 9.0],
\* SearchBin(1.0) = 0, SearchBin(2.0) = 1 (the first boundary strictly
\* greater than 2.0 is 5.0), SearchBin(5.5) = 2 and SearchBin(100.0) = 2.
C12_SearchBinExampleStrict ==
  (OnExample /\ found.op = "SearchBin" /\ found.column = 0) =>
    /\ found.err = "ok"
    /\ found.value = 2 => found.idx = 0
    /\ found.value = 4 => found.idx = 1
    /\ found.value = 11 => found.idx = 2
    /\ found.value = 200 => found.idx = 2

\* SearchBin(2.0) was made on the boundaries [2.0, 5.0, 9.0].
C12_Witness ==
  OnExample /\ found.op = "SearchBin" /\ found.column = 0 /\ found.value = 4

\* C13: for a feature f with at least one boundary and a value v,
\* SearchBin(v, f) is the global index of the first boundary of f's slice
\* that is strictly greater than v, or of the last boundary of the slice when
\* none is greater; it lies in [cut_ptrs[f], cut_ptrs[f + 1]).
C13_SearchBin ==
  (found.op = "SearchBin" /\ found.err = "ok" /\ SliceOf(found.column) # {}) =>
    LET greater == {i \in SliceOf(found.column) : cut_values_[i + 1] > found.value}
    IN  /\ found.idx = IF greater # {} THEN Least(greater)
                       ELSE cut_ptrs_[found.column + 2] - 1
        /\ found.idx \in SliceOf(found.column)

\* SearchBin returned the last bin of the second feature for a value no
\* boundary is greater than, on cuts whose first feature has boundaries too.
C13_Witness ==
  /\ found.op = "SearchBin" /\ found.err = "ok" /\ found.column = 1
  /\ cut_ptrs_[2] > 0
  /\ cut_ptrs_[3] - cut_ptrs_[2] >= 2
  /\ \A i \in SliceOf(1) : cut_values_[i + 1] <= found.value
  /\ found.idx = cut_ptrs_[3] - 1

\* C14: for a feature f with at least one boundary and a category c (the
\* truncated value), SearchCatBin is the global index of the smallest
\* boundary of f's slice that is not less than c, or of the last boundary of
\* the slice when every boundary is less than c; on [1, 3, 7] the category 3
\* maps to the bin of the boundary 3 and 8 to the last bin.
C14_SearchCatBin ==
  (found.op = "SearchCatBin" /\ found.err = "ok" /\ SliceOf(found.column) # {}) =>
    LET c == AsCat(found.value)
        notless == {i \in SliceOf(found.column) : cut_values_[i + 1] >= c}
    IN  /\ found.idx = IF notless # {} THEN Least(notless)
                       ELSE cut_ptrs_[found.column + 2] - 1
        /\ (OnExample /\ found.column = 1 /\ found.value = 6) => found.idx = 4
        /\ (OnExample /\ found.column = 1 /\ found.value = 16) => found.idx = 5

\* SearchCatBin(3) was made on the categories [1, 3, 7] and returned the bin
\* of the boundary 3.
C14_Witness ==
  /\ OnExample /\ found.op = "SearchCatBin" /\ found.column = 1
  /\ found.value = 6 /\ found.idx = 4


\* --------------------------------------------------------- Index properties

\* C15: round trip.  For each element width and every value written at
\* element i of the data buffer (and not overwritten, resized or re-typed
\* since), index[i] returns that value when no offset table is set, and
\* that value plus offset[i mod n] when an offset table of n entries is set.
C15_RoundTrip ==
  got # <<>> =>
    \A e \in stored :
      e[1] = got[1] =>
        got[2] = IF index.offset_ptr_ = "nullptr"
                 THEN e[2]
                 ELSE e[2] + index.offset_[(got[1] % Len(index.offset_)) + 1]

\* A two-byte value that needs both bytes, written at element 1 and read
\* back through an offset table of two entries whose entry 1 is not zero.
C15_Witness ==
  /\ got = <<1, 65536>>
  /\ <<1, 65535>> \in stored
  /\ index.binTypeSize_ = 2
  /\ Len(index.offset_) = 2
  /\ index.offset_[2] = 1

\* C16: a Resize of the data buffer that leaves an offset table which does
\* not divide the new number of elements ends in an error.
C16_ResizeRejected ==
  [][\A nBytesData \in 0..MaxBytes :
       (/\ DoResize(nBytesData)
        /\ index.offset_ptr_ # "nullptr"
        /\ (nBytesData \div index.binTypeSize_) % index.p_ # 0)
       => ret' # "ok"]_vars

\* ------------------------------ ParallelGHistBuilder properties: the schedule

\* Reset has run: the schedule of a pass is in place.
AfterReset == pc \in {"build", "reduce", "failed"}

\* The threads marked as touching node nid.
TouchingThreads(nid) ==
  {tid \in 0..(nthreads_ - 1) : threads_to_nids_map_[tid * nodes_ + nid + 1]}

\* The (thread, node) pairs of node nid that map to -1.
TargetPairs(nid) ==
  {p \in DOMAIN tid_nid_to_hist_ : p[2] = nid /\ tid_nid_to_hist_[p] = -1}

\* C17 as stated: after every Reset, every node of the pass has exactly one
\* (thread, node) pair that maps to -1.
C17_OneTargetPairPerNode ==
  AfterReset => \A nid \in 0..(nodes_ - 1) : Cardinality(TargetPairs(nid)) = 1

\* C17: after every Reset, a node that at least one thread touches has
\* exactly one (thread, node) pair that maps to -1, and a node that no
\* thread touches has none.
C17_OneTargetPairPerTouchedNode ==
  AfterReset =>
    \A nid \in 0..(nodes_ - 1) :
      Cardinality(TargetPairs(nid)) = IF TouchingThreads(nid) # {} THEN 1 ELSE 0

\* A pass in which two threads touch node 0 and no thread touches node 1.
C17_Witness ==
  /\ AfterReset
  /\ nodes_ = 2
  /\ Cardinality(TouchingThreads(0)) = 2
  /\ TouchingThreads(1) = {}
  /\ Cardinality(TargetPairs(0)) = 1

\* The scratch rows registered in hist_buffer_.
ScratchRows == {i \in 0..(Len(hist_buffer_.row_ptr) - 1) : RowExists(hist_buffer_, i)}

\* The (thread, node) pairs that map to a scratch row.
ScratchPairs == {p \in DOMAIN tid_nid_to_hist_ : tid_nid_to_hist_[p] >= 0}

\* max(0, count - 1) for the count of threads touching nid
Spare(nid) ==
  IF Cardinality(TouchingThreads(nid)) > 1 THEN Cardinality(TouchingThreads(nid)) - 1 ELSE 0

\* C18: after every Reset the number of scratch rows registered in
\* hist_buffer_ is the sum over the nodes of max(0, count - 1); the lowest
\* thread touching a node is the one mapped to -1; and the non-negative
\* values of the map are exactly the indices 0..k-1 of the k scratch rows,
\* each assigned to exactly one pair.
C18_ScratchRowsMatchAssignments ==
  AfterReset =>
    LET k == SumOver([nid \in 0..(nodes_ - 1) |-> Spare(nid)], 0, nodes_ - 1)
    IN  /\ hist_buffer_.n_nodes_added = k
        /\ ScratchRows = 0..(k - 1)
        /\ \A nid \in 0..(nodes_ - 1) :
             \A tid \in TouchingThreads(nid) :
               (tid_nid_to_hist_[<<tid, nid>>] = -1) <=> (\A t \in TouchingThreads(nid) : tid <= t)
        /\ {tid_nid_to_hist_[p] : p \in ScratchPairs} = 0..(k - 1)
        /\ \A p \in ScratchPairs, q \in ScratchPairs :
             tid_nid_to_hist_[p] = tid_nid_to_hist_[q] => p = q

\* A pass with two nodes that need a scratch row each: threads 0 and 1
\* touch node 0, threads 1 and 2 touch node 1, and the second scratch row
\* goes to thread 2 on node 1.
C18_Witness ==
  /\ AfterReset
  /\ nodes_ > 1
  /\ TouchingThreads(0) = {0, 1}
  /\ TouchingThreads(1) = {1, 2}
  /\ hist_buffer_.n_nodes_added = 2
  /\ tid_nid_to_hist_[<<1, 0>>] = 0
  /\ tid_nid_to_hist_[<<2, 1>>] = 1

\* ------------------------- ParallelGHistBuilder properties: first use per pass

\* The entries of the histogram GetInitializedHist(tid, nid) returns, as the
\* call leaves them.
Returned(tid, nid) == ReadHist(target', hist_buffer_', HistOf(hist_buffer_', tid, nid))

\* The call GetInitializedHist(tid, nid) of this step is not the first of the
\* pair in the pass: it returns the histogram of the earlier calls.
SameHistogram(tid, nid) ==
  /\ HistOf(hist_buffer_', tid, nid) = HistOf(hist_buffer_, tid, nid)
  /\ <<tid, nid, HistOf(hist_buffer_, tid, nid)>> \in handed

\* C19: zero on first use only.  In each pass the first
\* GetInitializedHist(tid, nid) of a registered pair returns a histogram of
\* nbins_ entries that are all zero, whatever it held; every later call of
\* the pair in the pass returns the same histogram with its contents as
\* they were (seen on its own, and in the loop body, where the unit's
\* contribution is then added to it); and Reset leaves every target
\* holding what the caller handed in.  (A step that is a Reset is the Reset
\* of the thread count, node count and work space the step leaves.)
C19_ZeroOnFirstUseOnly ==
  [][/\ \A tid \in 0..MaxThreads, nid \in 0..MaxNodes :
          (DoGetInitializedHist(tid, nid) /\ ret' = "ok") =>
            /\ Len(Returned(tid, nid)) = nbins_
            /\ IF ~hist_was_used_[Slot(tid, nid)]
               THEN \A i \in 1..nbins_ : Returned(tid, nid)[i] = 0
               ELSE /\ SameHistogram(tid, nid)
                    /\ Returned(tid, nid) =
                         ReadHist(target, hist_buffer_, HistOf(hist_buffer_, tid, nid))
     /\ \A tid \in Threads :
          (DoBuildUnit(tid) /\ ret' = "ok") =>
            LET nid == space[NextUnit(tid) + 1]
                bin == BinOfUnit(NextUnit(tid))
            IN  IF ~hist_was_used_[Slot(tid, nid)]
                THEN Returned(tid, nid) = [i \in 1..nbins_ |-> IF i = bin + 1 THEN 1 ELSE 0]
                ELSE /\ SameHistogram(tid, nid)
                     /\ Returned(tid, nid) =
                          [ReadHist(target, hist_buffer_, HistOf(hist_buffer_, tid, nid))
                             EXCEPT ![bin + 1] = @ + 1]
     /\ \A st \in 0..MaxVal :
          DoReset(nthreads_', nodes_', space', st) =>
            \A n \in 1..nodes_' : \A i \in 1..nbins_ : target'[n][i] = st
    ]_vars

\* One thread has done its two work units of node 0 in a pass whose targets
\* held 1 in every bin: the target of node 0 holds the two contributions and
\* nothing else, and the target of node 1, which no thread touches, still
\* holds what it held at Reset.
C19_Witness ==
  /\ pc = "build"
  /\ nthreads_ = 1 /\ nodes_ = 2
  /\ space = <<0, 0>>
  /\ ptr = <<2>>
  /\ target = <<<<1, 1>>, <<1, 1>>>>

\* ------------------------------------------- HistCollection: views and storage

\* Two views share an entry.
Overlap(v, w) == v.arr = w.arr /\ v.off < w.off + w.size /\ w.off < v.off + v.size

\* C20: in every state reached by Init, AddHistRow, AllocateData and
\* AllocateAllData (and writes through the views), for every node with
\* RowExists whose storage was allocated since it was added, the nbins
\* entries of operator[](nid) lie inside allocated storage and share no
\* entry with the view of another existing node.
C20_ViewsInsideOwnStorage ==
  \A nid \in Nids :
    (RowExists(hc, nid) /\ nid \in alloc) =>
      /\ ViewInStorage(hc, HC_View(hc, nid))
      /\ \A other \in Nids \ {nid} :
           RowExists(hc, other) => ~Overlap(HC_View(hc, nid), HC_View(hc, other))

\* ------------------------------------------------ BinarySearchBin properties

\* The int32_t r is the id g.
IsGid(r, g) == g.hi = 0 /\ r = g.lo

\* The ids of the data searched that lie in the feature range.
Entries ==
  InRange(bsearch.data, bsearch.begin0, bsearch.end0, bsearch.fidx_begin, bsearch.fidx_end)

\* C21: for every ascending data[begin..end) that holds at most one id per
\* feature and every feature range [fidx_begin, fidx_end), BinarySearchBin
\* returns the element of data[begin..end) that lies in the range when there
\* is one, and -1 when there is none, begin = end included.
C21_BinarySearchBin ==
  bsearch.pc = "done" =>
    IF Entries # {}
    THEN \A i \in Entries : IsGid(bsearch.result, bsearch.data[i])
    ELSE bsearch.result = -1

\* The same for ids below 2^31: the feature's entry is returned when the
\* range holds one below 2^31, and -1 when it holds none.
BinarySearchBin_Below31 ==
  bsearch.pc = "done" =>
    /\ \A i \in Entries : bsearch.data[i].hi = 0 => bsearch.result = bsearch.data[i].lo
    /\ Entries = {} => bsearch.result = -1

\* Every call returns.
BinarySearchBin_Terminates == <>(bsearch.pc = "done")

=========================================================================
